---- MODULE Spec2Model ----
(***************************************************************************)
(* Model of MainWindow::runConversion (src/gui_main_window.cpp): the       *)
(* conversion of a whitespace-delimited text matrix into one output file   *)
(* or one file per row, optionally transposed.                             *)
(*                                                                         *)
(* Text (file contents, lines, file names) is a sequence of one-character  *)
(* strings; "\n" is the line terminator.  The numbers of the model are     *)
(* the integers a text over digits and "-" denotes.                        *)
(***************************************************************************)
EXTENDS Integers, Sequences, FiniteSets

VARIABLES
    inputText,        \* content of the input file
    shallTranspose,   \* ui.transposeCheckBox
    shallCreateFileForEachRow, \* ui.fileForEachRowCheckBox
    outputFileNames,  \* ui.outputFilesLineEdit
    replaceString,    \* ui.replaceCharsLineEdit
    mayFail,          \* whether the file system may refuse an output open or write
    pc,               \* position of the conversion lambda
    lines,            \* result of cu::extractByLine
    matrix,           \* std::vector<std::vector<double>> matrix
    nLine,            \* size_t nLine
    firstPart,        \* outputFileNamesFirstPart
    lastPart,         \* outputFileNamesLastPart
    outGood,          \* outputFile.good() of the single output stream
    disk,             \* the output files: name -> content
    openLog,          \* names of the output files opened so far, in order
    stages,           \* stages entered so far, in order
    validated,        \* the matrix as it left the row-length check
    result            \* the message shown to the user, or NoResult

vars == <<inputText, shallTranspose, shallCreateFileForEachRow, outputFileNames,
          replaceString, mayFail, pc, lines, matrix, nLine, firstPart, lastPart,
          outGood, disk, openLog, stages, validated, result>>

(***************************************************************************)
(* Bounds of the checked instances.                                        *)
(***************************************************************************)
MaxLines == 3
MaxCols == 3
MaxFileLen == 6
MaxPatLen == 4
MaxTokLen == 2

(***************************************************************************)
(* Text helpers.                                                           *)
(***************************************************************************)
DigitChars == <<"0", "1", "2", "3", "4", "5", "6", "7", "8", "9">>

IsDigit(c) == \E d \in 1..10 : DigitChars[d] = c

DigitVal(c) == (CHOOSE d \in 1..10 : DigitChars[d] = c) - 1

\* std::isspace of the characters the instances use
IsSpace(c) == c = " "

RECURSIVE Pow10(_)
Pow10(n) == IF n = 0 THEN 1 ELSE 10 * Pow10(n - 1)

RECURSIVE Digits(_)
Digits(n) == IF n < 10 THEN <<DigitChars[n + 1]>>
             ELSE Digits(n \div 10) \o <<DigitChars[(n % 10) + 1]>>

\* std::to_string(size_t)
ToString(n) == Digits(n)

RECURSIVE StripZeros(_)
StripZeros(s) == IF s # <<>> /\ s[Len(s)] = "0"
                 THEN StripZeros(SubSeq(s, 1, Len(s) - 1)) ELSE s

\* The value of the digits s[i..j-1]
RECURSIVE NumVal(_, _, _)
NumVal(s, i, j) == IF j <= i THEN 0
                   ELSE 10 * NumVal(s, i, j - 1) + DigitVal(s[j - 1])

RECURSIVE SkipSpace(_, _)
SkipSpace(s, i) == IF i <= Len(s) /\ IsSpace(s[i]) THEN SkipSpace(s, i + 1) ELSE i

RECURSIVE SkipDigits(_, _)
SkipDigits(s, i) == IF i <= Len(s) /\ IsDigit(s[i]) THEN SkipDigits(s, i + 1) ELSE i

(***************************************************************************)
(* cu::extractByLine: the lines of a text, split at "\n"; text after the   *)
(* last terminator is the final line, and a terminator at the very end     *)
(* starts no further line.                                                 *)
(***************************************************************************)
RECURSIVE SplitLines(_, _, _, _)
SplitLines(text, i, cur, acc) ==
    IF i > Len(text) THEN (IF cur = <<>> THEN acc ELSE Append(acc, cur))
    ELSE IF text[i] = "\n" THEN SplitLines(text, i + 1, <<>>, Append(acc, cur))
    ELSE SplitLines(text, i + 1, Append(cur, text[i]), acc)

ExtractByLine(text) == SplitLines(text, 1, <<>>, <<>>)

(***************************************************************************)
(* One extraction "is >> double" from position i of a line whose stream    *)
(* is still good: leading white space is skipped, then an optional sign    *)
(* and the digits that follow are taken.  ok: a number was read; eof: the  *)
(* end of the line was reached while reading (eofbit); next: the position  *)
(* of the first character not taken.                                       *)
(***************************************************************************)
ReadDouble(s, i) ==
    LET k == SkipSpace(s, i)
    IN  IF k > Len(s)
        THEN [ok |-> FALSE, val |-> 0, next |-> k, eof |-> TRUE]
        ELSE LET neg == s[k] = "-"
                 d0 == IF s[k] \in {"-", "+"} THEN k + 1 ELSE k
                 d1 == SkipDigits(s, d0)
             IN  IF d1 = d0
                 THEN [ok |-> FALSE, val |-> 0, next |-> d1, eof |-> d1 > Len(s)]
                 ELSE [ok |-> TRUE,
                       val |-> IF neg THEN 0 - NumVal(s, d0, d1) ELSE NumVal(s, d0, d1),
                       next |-> d1, eof |-> d1 > Len(s)]

(***************************************************************************)
(* std::copy(istream_iterator<double>(is), istream_iterator<double>(),     *)
(* back_inserter(row)): extractions repeat until one fails; an extraction  *)
(* that follows one which set eofbit fails at once and reads nothing.      *)
(***************************************************************************)
RECURSIVE CopyDoubles(_, _, _)
CopyDoubles(s, i, acc) ==
    LET r == ReadDouble(s, i)
    IN  IF ~r.ok THEN [row |-> acc, eof |-> r.eof]
        ELSE IF r.eof THEN [row |-> Append(acc, r.val), eof |-> TRUE]
        ELSE CopyDoubles(s, r.next, Append(acc, r.val))

\* The row read from a line, and whether "is.bad() || !is.eof()" holds after it
ParseLine(line) ==
    LET r == CopyDoubles(line, 1, <<>>)
    IN  [row |-> r.row, failed |-> ~r.eof]

(***************************************************************************)
(* operator<<(double) with the default format (%g, precision 6), for the   *)
(* integral values of the model.                                           *)
(***************************************************************************)
FormatMagnitude(a) ==
    IF a < 1000000 THEN Digits(a)
    ELSE LET e0 == Len(Digits(a)) - 1
             scale == Pow10(e0 - 5)
             q0 == a \div scale
             r0 == a % scale
             q1 == IF 2 * r0 > scale \/ (2 * r0 = scale /\ q0 % 2 = 1)
                   THEN q0 + 1 ELSE q0
             q == IF q1 = 1000000 THEN 100000 ELSE q1
             e == IF q1 = 1000000 THEN e0 + 1 ELSE e0
             ds == Digits(q)
             frac == StripZeros(SubSeq(ds, 2, 6))
             expo == IF e < 10 THEN <<"0">> \o Digits(e) ELSE Digits(e)
         IN  <<ds[1]>> \o (IF frac = <<>> THEN <<>> ELSE <<".">> \o frac)
                 \o <<"e", "+">> \o expo

FormatDouble(x) == IF x < 0 THEN <<"-">> \o FormatMagnitude(0 - x)
                   ELSE FormatMagnitude(x)

\* std::copy(begin(row), end(row), ostream_iterator<double>(outputFile, " "));
\* outputFile << std::endl;
RECURSIVE RowValues(_)
RowValues(row) == IF row = <<>> THEN <<>>
                  ELSE FormatDouble(Head(row)) \o <<" ">> \o RowValues(Tail(row))

RowText(row) == RowValues(row) \o <<"\n">>

(***************************************************************************)
(* The transpose block.                                                    *)
(***************************************************************************)
\* cu::for_each over two ranges: f(x, t) on the pairs, here t.push_back(x)
ForEachPushBack(row, t) ==
    [k \in 1..Len(t) |-> IF k <= Len(row) THEN Append(t[k], row[k]) ELSE t[k]]

RECURSIVE TransposeRows(_, _, _)
TransposeRows(m, i, t) ==
    IF i > Len(m) THEN t ELSE TransposeRows(m, i + 1, ForEachPushBack(m[i], t))

\* Mutant: transposed( matrix.size() ) in place of matrix.front().size()
TransposedSizedByRows(m) == TransposeRows(m, 1, [k \in 1..Len(m) |-> <<>>])

\* std::vector<std::vector<double>> transposed( matrix.front().size() ); ...
Transposed(m) == TransposeRows(m, 1, [k \in 1..Len(m[1]) |-> <<>>])

\* Mutant: std::remove_if without the erase, the vector keeps its length
RemoveWithoutErase(m) ==
    LET kept == SelectSeq(m, LAMBDA r : r # <<>>)
    IN  kept \o [k \in 1..(Len(m) - Len(kept)) |-> <<>>]

\* matrix.erase( std::remove_if( ..., &std::vector<double>::empty ), end )
RemoveEmpty(m) == SelectSeq(m, LAMBDA r : r # <<>>)

\* Mutant: only a row longer than the first is reported
RowLonger(m, n) == Len(m[n]) > Len(m[1])

\* row.size() != matrix.front().size()
RowMismatch(m, n) == Len(m[n]) # Len(m[1])

(***************************************************************************)
(* The output file pattern.                                                *)
(***************************************************************************)
OccursAt(pat, text, i) ==
    /\ i + Len(pat) - 1 <= Len(text)
    /\ \A k \in 1..Len(pat) : text[i + k - 1] = pat[k]

\* cu::findBoyerMoore: the position of the leftmost occurrence of pat in
\* text, or the end position Len(text) + 1 when there is none
RECURSIVE FindFrom(_, _, _)
FindFrom(pat, text, i) ==
    IF i > Len(text) THEN Len(text) + 1
    ELSE IF OccursAt(pat, text, i) THEN i
    ELSE FindFrom(pat, text, i + 1)

FindBoyerMoore(pat, text) == FindFrom(pat, text, 1)

\* Mutant: the check "replaceString.empty()" is missing
TokenCheckWithoutEmpty(token, names) ==
    IF FindBoyerMoore(token, names) = Len(names) + 1
    THEN "TokenNotFoundError" ELSE "ok"

\* "if ( replaceString.empty() ) CU_THROW", then
\* "if ( it == end(outputFileNames) ) CU_THROW": the error, or "ok"
TokenCheck(token, names) ==
    IF token = <<>> THEN "EmptyTokenError"
    ELSE IF FindBoyerMoore(token, names) = Len(names) + 1
    THEN "TokenNotFoundError" ELSE "ok"

\* std::string( begin(outputFileNames), it )
FirstPart(names, it) == SubSeq(names, 1, it - 1)

\* Mutant: the token is taken to be one character long
LastPartAfterOneChar(names, it, token) == SubSeq(names, it + 1, Len(names))

\* std::string( it+replaceString.size(), end(outputFileNames) )
LastPart(names, it, token) == SubSeq(names, it + Len(token), Len(names))

\* outputFileNamesFirstPart + std::to_string(nLine) + outputFileNamesLastPart
OutputFileName(first, n, last) == first \o ToString(n) \o last

(***************************************************************************)
(* Messages and files.                                                     *)
(***************************************************************************)
InputFileName == <<"i", "n">>

NoFile == <<>>

OldText == <<"o", "l", "d", "\n">>

\* What a message tells: its kind, the line or row number and the file
\* name it contains (0 and NoFile when it contains none)
Message(kind, line, file) ==
    [kind |-> kind, line |-> line, file |-> file,
     cites |-> (IF line = 0 THEN {} ELSE {"line"})
                  \cup (IF file = NoFile THEN {} ELSE {"file"})]

NoResult == Message("none", 0, NoFile)

\* Mutant: the file is opened without discarding what it holds
OpenedKeepingContent(d, name) ==
    [n \in DOMAIN d \cup {name} |-> IF n \in DOMAIN d THEN d[n] ELSE <<>>]

\* std::ofstream outputFile( name ) on success: the file exists and is empty
Truncated(d, name) ==
    [n \in DOMAIN d \cup {name} |-> IF n = name THEN <<>> ELSE d[n]]

\* text written to the end of an open file
Appended(d, name, text) == [d EXCEPT ![name] = @ \o text]

Prefixes(text) == {SubSeq(text, 1, k) : k \in 0..(Len(text) - 1)}

\* What the file system may do to one output operation
OpenOutcomes == IF mayFail THEN {"ok", "refused"} ELSE {"ok"}

WriteOutcomes == IF mayFail THEN {"ok", "short"} ELSE {"ok"}

\* What reaches the file of a text written to it: all of it, or on a short
\* write some proper prefix
Written(text, w) == IF w = "ok" THEN {text} ELSE Prefixes(text)

\* Mutant: only the open is checked, as by outputFile.is_open()
StreamOpened(opened, w) == opened

\* outputFile.good() after the row: the stream was opened and the write was whole
StreamGood(opened, w) == opened /\ w = "ok"

(***************************************************************************)
(* The conversion, one action per step of the lambda handed to             *)
(* qu::invokeInThread by MainWindow::runConversion.                        *)
(***************************************************************************)
\* Mutant: the message is recorded and the lambda goes on
ThrowAndGoOn(kind, line, file) ==
    /\ result' = Message(kind, line, file)
    /\ pc' = pc

\* CU_THROW( message ): the lambda ends with the message
Throw(kind, line, file) ==
    /\ result' = Message(kind, line, file)
    /\ pc' = "failed"

\* std::ifstream inputFile{ inputFileName }; cu::extractByLine; the stream checks
OpenInput ==
    /\ pc = "open"
    /\ stages' = Append(stages, "Parsing")
    /\ \E st \in {"ok", "noopen", "bad", "noeof"} :
          IF st = "ok"
          THEN /\ lines' = ExtractByLine(inputText)
               /\ pc' = "parse"
               /\ UNCHANGED result
          ELSE /\ Throw("IoError", 0, InputFileName)
               /\ UNCHANGED lines
    /\ UNCHANGED <<inputText, shallTranspose, shallCreateFileForEachRow,
                   outputFileNames, replaceString, mayFail, matrix, nLine,
                   firstPart, lastPart, outGood, disk, openLog, validated>>

\* one iteration of "for ( const auto & line : lines )"
ParseNextLine ==
    /\ pc = "parse"
    /\ nLine < Len(lines)
    /\ nLine' = nLine + 1
    /\ LET p == ParseLine(lines[nLine + 1])
       IN  /\ matrix' = Append(matrix, p.row)
           /\ IF p.failed
              THEN Throw("ParseError", nLine + 1, InputFileName)
              ELSE UNCHANGED <<pc, result>>
    /\ UNCHANGED <<inputText, shallTranspose, shallCreateFileForEachRow,
                   outputFileNames, replaceString, mayFail, lines,
                   firstPart, lastPart, outGood, disk, openLog, stages, validated>>

\* "remove empty rows" and the check that samples remain
RemoveEmptyRows ==
    /\ pc = "parse"
    /\ nLine = Len(lines)
    /\ stages' = Append(stages, "Validating")
    /\ matrix' = RemoveEmpty(matrix)
    /\ IF RemoveEmpty(matrix) = <<>>
       THEN /\ Throw("EmptyMatrixError", 0, InputFileName)
            /\ UNCHANGED nLine
       ELSE /\ pc' = "checkRows"
            /\ nLine' = 0
            /\ UNCHANGED result
    /\ UNCHANGED <<inputText, shallTranspose, shallCreateFileForEachRow,
                   outputFileNames, replaceString, mayFail, lines,
                   firstPart, lastPart, outGood, disk, openLog, validated>>

\* one iteration of "Check if all rows have the same length"
CheckRow ==
    /\ pc = "checkRows"
    /\ nLine < Len(matrix)
    /\ nLine' = nLine + 1
    /\ IF RowMismatch(matrix, nLine + 1)
       THEN Throw("RaggedMatrixError", nLine + 1, NoFile)
       ELSE UNCHANGED <<pc, result>>
    /\ UNCHANGED <<inputText, shallTranspose, shallCreateFileForEachRow,
                   outputFileNames, replaceString, mayFail, lines, matrix,
                   firstPart, lastPart, outGood, disk, openLog, stages, validated>>

\* "if ( shallTranspose ) { ... matrix.swap( transposed ); }"
Transpose ==
    /\ pc = "checkRows"
    /\ nLine = Len(matrix)
    /\ validated' = matrix
    /\ IF shallTranspose
       THEN /\ matrix' = Transposed(matrix)
            /\ stages' = Append(stages, "Transposing")
       ELSE UNCHANGED <<matrix, stages>>
    /\ pc' = "plan"
    /\ UNCHANGED <<inputText, shallTranspose, shallCreateFileForEachRow,
                   outputFileNames, replaceString, mayFail, lines, nLine,
                   firstPart, lastPart, outGood, disk, openLog, result>>

\* "if ( shallCreateFileForEachRow )": the token checks and the two name parts
PlanSplit ==
    /\ pc = "plan"
    /\ shallCreateFileForEachRow
    /\ stages' = Append(stages, "Planning")
    /\ LET check == TokenCheck(replaceString, outputFileNames)
           it == FindBoyerMoore(replaceString, outputFileNames)
       IN  IF check # "ok"
           THEN /\ Throw(check, 0, NoFile)
                /\ UNCHANGED <<firstPart, lastPart, nLine>>
           ELSE /\ firstPart' = FirstPart(outputFileNames, it)
                /\ lastPart' = LastPart(outputFileNames, it, replaceString)
                /\ nLine' = 0
                /\ pc' = "writeSplit"
                /\ UNCHANGED result
    /\ UNCHANGED <<inputText, shallTranspose, shallCreateFileForEachRow,
                   outputFileNames, replaceString, mayFail, lines, matrix,
                   outGood, disk, openLog, validated>>

\* one iteration of the per-row loop: open the row's file, write, check
WriteRowSplit ==
    /\ pc = "writeSplit"
    /\ nLine < Len(matrix)
    /\ nLine' = nLine + 1
    /\ stages' = IF nLine = 0 THEN Append(stages, "Writing") ELSE stages
    /\ LET name == OutputFileName(firstPart, nLine + 1, lastPart)
           text == RowText(matrix[nLine + 1])
       IN  \E o \in OpenOutcomes, w \in WriteOutcomes :
              /\ o = "refused" => w = "ok"
              /\ openLog' = IF o = "ok" THEN Append(openLog, name) ELSE openLog
              /\ \E part \in Written(text, w) :
                    disk' = IF o = "ok"
                            THEN Appended(Truncated(disk, name), name, part)
                            ELSE disk
              /\ IF ~StreamGood(o = "ok", w)
                 THEN Throw("IoError", nLine + 1, name)
                 ELSE UNCHANGED <<pc, result>>
    /\ UNCHANGED <<inputText, shallTranspose, shallCreateFileForEachRow,
                   outputFileNames, replaceString, mayFail, lines, matrix,
                   firstPart, lastPart, outGood, validated>>

\* "else": nLine = 0; std::ofstream outputFile( outputFileNames );
OpenSingle ==
    /\ pc = "plan"
    /\ ~shallCreateFileForEachRow
    /\ nLine' = 0
    /\ stages' = Append(stages, "Writing")
    /\ \E o \in OpenOutcomes :
          IF o = "refused"
          THEN /\ outGood' = FALSE
               /\ UNCHANGED <<disk, openLog>>
          ELSE /\ outGood' = TRUE
               /\ disk' = Truncated(disk, outputFileNames)
               /\ openLog' = Append(openLog, outputFileNames)
    /\ pc' = "writeSingle"
    /\ UNCHANGED <<inputText, shallTranspose, shallCreateFileForEachRow,
                   outputFileNames, replaceString, mayFail, lines, matrix,
                   firstPart, lastPart, validated, result>>

\* one iteration of the single-file loop: write the row, check the stream
WriteRowSingle ==
    /\ pc = "writeSingle"
    /\ nLine < Len(matrix)
    /\ nLine' = nLine + 1
    /\ LET text == RowText(matrix[nLine + 1])
       IN  \E w \in WriteOutcomes :
              /\ ~outGood => w = "ok"
              /\ \E part \in Written(text, w) :
                    disk' = IF outGood
                            THEN Appended(disk, outputFileNames, part)
                            ELSE disk
              /\ IF ~StreamGood(outGood, w)
                 THEN Throw("IoError", nLine + 1, outputFileNames)
                 ELSE UNCHANGED <<pc, result>>
    /\ UNCHANGED <<inputText, shallTranspose, shallCreateFileForEachRow,
                   outputFileNames, replaceString, mayFail, lines, matrix,
                   firstPart, lastPart, outGood, openLog, stages, validated>>

\* qu::invokeInGuiThread( showMessage( "Files written successfully." ) )
ReportSuccess ==
    /\ pc \in {"writeSplit", "writeSingle"}
    /\ nLine = Len(matrix)
    /\ result' = Message("Success", 0, NoFile)
    /\ pc' = "done"
    /\ UNCHANGED <<inputText, shallTranspose, shallCreateFileForEachRow,
                   outputFileNames, replaceString, mayFail, lines, matrix, nLine,
                   firstPart, lastPart, outGood, disk, openLog, stages, validated>>

Next ==
    \/ OpenInput
    \/ ParseNextLine
    \/ RemoveEmptyRows
    \/ CheckRow
    \/ Transpose
    \/ PlanSplit
    \/ WriteRowSplit
    \/ OpenSingle
    \/ WriteRowSingle
    \/ ReportSuccess

(***************************************************************************)
(* The state as runConversion captures the five inputs and starts the      *)
(* lambda.  Files named like the output already exist with old content.    *)
(***************************************************************************)
ExistingFiles(names) == [n \in {names, <<"o", "1">>} |-> OldText]

Start(text, tr, sp, names, token, mf) ==
    /\ inputText = text
    /\ shallTranspose = tr
    /\ shallCreateFileForEachRow = sp
    /\ outputFileNames = names
    /\ replaceString = token
    /\ mayFail = mf
    /\ pc = "open"
    /\ lines = <<>>
    /\ matrix = <<>>
    /\ nLine = 0
    /\ firstPart = <<>>
    /\ lastPart = <<>>
    /\ outGood = FALSE
    /\ disk = ExistingFiles(names)
    /\ openLog = <<>>
    /\ stages = <<>>
    /\ validated = <<>>
    /\ result = NoResult

\* Texts of at most n characters over the alphabet
RECURSIVE Texts(_, _)
Texts(alphabet, n) ==
    IF n = 0 THEN {<<>>}
    ELSE LET shorter == Texts(alphabet, n - 1)
         IN  shorter \cup {Append(t, c) : t \in shorter, c \in alphabet}

\* Input files of numbered samples: line i holds shape[i] values, the j-th
\* being (i-1)*MaxCols + j, separated by one space
RECURSIVE SampleLine(_, _, _)
SampleLine(i, c, j) ==
    IF j > c THEN <<"\n">>
    ELSE (IF j > 1 THEN <<" ">> ELSE <<>>)
             \o Digits((i - 1) * MaxCols + j) \o SampleLine(i, c, j + 1)

RECURSIVE SampleText(_, _)
SampleText(shape, i) ==
    IF i > Len(shape) THEN <<>>
    ELSE SampleLine(i, shape[i], 1) \o SampleText(shape, i + 1)

Shapes == UNION {[1..n -> 0..MaxCols] : n \in 0..MaxLines}

\* Sample matrices of every shape, both flags, two patterns, a token that
\* is in the pattern, one that is not and the empty one, faults possible
Init ==
    \E shape \in Shapes, tr \in BOOLEAN, sp \in BOOLEAN,
       names \in {<<"o", "#">>, <<"#", "1">>},
       token \in {<<"#">>, <<"#", "#">>, <<>>} :
        Start(SampleText(shape, 1), tr, sp, names, token, TRUE)

Spec == Init /\ [][Next]_vars

\* Every input text over the characters a line is made of
InitRaw ==
    \E text \in Texts({"1", " ", "-", "x", "\n"}, MaxFileLen), f \in BOOLEAN :
        Start(text, f, f, <<"o", "#">>, <<"#">>, FALSE)

SpecRaw == InitRaw /\ [][Next]_vars

\* Every output pattern and token over three characters, one sample matrix
InitPlan ==
    \E names \in Texts({"o", "#", "1"}, MaxPatLen),
       token \in Texts({"o", "#", "1"}, MaxTokLen), sp \in BOOLEAN :
        Start(SampleText(<<2, 2>>, 1), FALSE, sp, names, token, FALSE)

SpecPlan == InitPlan /\ [][Next]_vars

(***************************************************************************)
(* Vocabulary of the properties.                                           *)
(***************************************************************************)
Last(seq) == seq[Len(seq)]

Entered(stage) == \E k \in 1..Len(stages) : stages[k] = stage

IsPrefix(a, b) == Len(a) <= Len(b) /\ SubSeq(b, 1, Len(a)) = a

RECURSIVE Concat(_)
Concat(texts) == IF texts = <<>> THEN <<>> ELSE Head(texts) \o Concat(Tail(texts))

\* The stages a run with the given flags passes when nothing fails
ExpectedStages ==
    <<"Parsing", "Validating">>
        \o (IF shallTranspose THEN <<"Transposing">> ELSE <<>>)
        \o (IF shallCreateFileForEachRow THEN <<"Planning">> ELSE <<>>)
        \o <<"Writing">>

\* The failures a stage can end the run with
StageFailures(stage) ==
    CASE stage = "Parsing" -> {"IoError", "ParseError"}
      [] stage = "Validating" -> {"EmptyMatrixError", "RaggedMatrixError"}
      [] stage = "Planning" -> {"EmptyTokenError", "TokenNotFoundError"}
      [] stage = "Writing" -> {"IoError"}
      [] OTHER -> {}

\* The name of the file of row i in per-row mode
RowFile(i) == firstPart \o ToString(i) \o lastPart

\* Every row of the final matrix is in its place on disk
AllRowsWritten ==
    IF shallCreateFileForEachRow
    THEN \A i \in 1..Len(matrix) :
            RowFile(i) \in DOMAIN disk /\ disk[RowFile(i)] = RowText(matrix[i])
    ELSE disk[outputFileNames] = Concat([i \in 1..Len(matrix) |-> RowText(matrix[i])])

\* What holds of every state of a run, whatever stage it is in
C1_StateInv ==
    /\ IsPrefix(stages, ExpectedStages)
    /\ (result # NoResult) <=> (pc \in {"done", "failed"})
    /\ pc = "failed" =>
          /\ stages # <<>>
          /\ result.kind \in StageFailures(Last(stages))
          /\ Last(stages) \in {"Parsing", "Validating", "Planning"} =>
                openLog = <<>> /\ disk = ExistingFiles(outputFileNames)
    /\ pc = "done" =>
          /\ result.kind = "Success"
          /\ stages = ExpectedStages
          /\ nLine = Len(matrix)
          /\ AllRowsWritten

(***************************************************************************)
(* C1: the stages run in the order Parsing, Validating, Transposing (only  *)
(* with the transpose flag), Planning (only with the split flag), Writing; *)
(* a failure ends the run with one failure of the stage it happened in and *)
(* nothing runs after it; no output file is opened or changed when         *)
(* Parsing, Validating or Planning fails; success is reported only after   *)
(* all stages ran and every row is written; a run has an outcome exactly   *)
(* when it has ended, and no step follows an outcome.                      *)
(***************************************************************************)
C1_StagesInOrderOneOutcome == [](C1_StateInv) /\ [][result = NoResult]_vars

C1_Witness_FailedInPlanningAfterTranspose ==
    /\ pc = "failed"
    /\ stages = <<"Parsing", "Validating", "Transposing", "Planning">>
    /\ Len(validated) = 2

(***************************************************************************)
(* C2: after the transpose step on a validated matrix of R rows and C      *)
(* columns (R >= 1, C >= 1) the matrix has C rows of length R, and         *)
(* row j, column i of it is row i, column j of the validated matrix.       *)
(***************************************************************************)
C2_TransposeDimensionsAndEntries ==
    (shallTranspose /\ Entered("Transposing")) =>
        LET R == Len(validated)
            C == Len(validated[1])
        IN  /\ R >= 1 /\ C >= 1
            /\ Len(matrix) = C
            /\ \A j \in 1..C :
                  /\ Len(matrix[j]) = R
                  /\ \A i \in 1..R : matrix[j][i] = validated[i][j]

C2_Witness_TwoByThreeTransposed ==
    /\ Entered("Transposing")
    /\ Len(validated) = 2
    /\ Len(validated[1]) = 3
    /\ Len(matrix) = 3

(***************************************************************************)
(* C10: transposing the result of the transpose step gives back the        *)
(* validated matrix: the same rows with the same entries in place.         *)
(***************************************************************************)
C10_TransposeInvolutive ==
    (shallTranspose /\ Entered("Transposing")) =>
        /\ Transposed(matrix) = validated
        /\ Transposed(Transposed(validated)) = validated

C10_Witness_ThreeByTwoTransposed ==
    /\ Entered("Transposing")
    /\ Len(validated) = 3
    /\ Len(validated[1]) = 2
    /\ matrix # validated

\* Where the token occurs in the pattern, by comparing the characters
TokenStartsAt(i) ==
    /\ i >= 1
    /\ i + Len(replaceString) - 1 <= Len(outputFileNames)
    /\ SubSeq(outputFileNames, i, i + Len(replaceString) - 1) = replaceString

TokenOccurs == \E i \in 1..Len(outputFileNames) : TokenStartsAt(i)

(***************************************************************************)
(* C3: when the token is not empty and occurs in the pattern, planning     *)
(* succeeds and splits the pattern at the leftmost occurrence: pattern =   *)
(* prefix + token + suffix, the token starts at no position before the     *)
(* end of prefix, whatever follows the first occurrence (further           *)
(* occurrences included) is the suffix unchanged, and the file opened for  *)
(* row i is named prefix + toString(i) + suffix.                           *)
(***************************************************************************)
C3_SplitAtLeftmostToken ==
    (shallCreateFileForEachRow /\ Entered("Planning")
       /\ replaceString # <<>> /\ TokenOccurs) =>
        /\ ~(pc = "failed" /\ Last(stages) = "Planning")
        /\ outputFileNames = firstPart \o replaceString \o lastPart
        /\ \A i \in 1..Len(firstPart) : ~TokenStartsAt(i)
        /\ lastPart = SubSeq(outputFileNames,
                             Len(firstPart) + Len(replaceString) + 1,
                             Len(outputFileNames))
        /\ \A i \in 1..Len(openLog) :
              openLog[i] = firstPart \o ToString(i) \o lastPart

C3_Witness_SecondOccurrenceKeptInSuffix ==
    /\ shallCreateFileForEachRow
    /\ Len(replaceString) = 2
    /\ TokenStartsAt(Len(firstPart) + 1)
    /\ TokenStartsAt(Len(firstPart) + 2)
    /\ Len(openLog) = 2
    /\ openLog[2] = firstPart \o <<"2">> \o lastPart

(***************************************************************************)
(* C5: with the split flag set, a run that reaches planning fails with     *)
(* EmptyTokenError when the token is empty and with TokenNotFoundError     *)
(* when the token is not empty and does not occur in the pattern, and      *)
(* these are the only reasons for the two errors; with the split flag      *)
(* unset, planning is skipped and the run never fails with either error,   *)
(* whatever the token is.                                                  *)
(***************************************************************************)
C5_TokenErrorsOnlyWhenSplitting ==
    /\ (shallCreateFileForEachRow /\ Entered("Planning") /\ replaceString = <<>>) =>
          pc = "failed" /\ result.kind = "EmptyTokenError"
    /\ (shallCreateFileForEachRow /\ Entered("Planning")
          /\ replaceString # <<>> /\ ~TokenOccurs) =>
          pc = "failed" /\ result.kind = "TokenNotFoundError"
    /\ result.kind = "EmptyTokenError" =>
          shallCreateFileForEachRow /\ replaceString = <<>>
    /\ result.kind = "TokenNotFoundError" =>
          shallCreateFileForEachRow /\ replaceString # <<>> /\ ~TokenOccurs
    /\ ~shallCreateFileForEachRow =>
          /\ ~Entered("Planning")
          /\ result.kind \notin {"EmptyTokenError", "TokenNotFoundError"}
          /\ (pc = "plan" => ENABLED OpenSingle)

C5_Witness_TokenNotFoundWhileSplitting ==
    /\ shallCreateFileForEachRow
    /\ Len(replaceString) = 2
    /\ \E i \in 1..Len(outputFileNames) : outputFileNames[i] = replaceString[1]
    /\ result.kind = "TokenNotFoundError"

(***************************************************************************)
(* C4: a per-row run that ends in success on a final matrix of R rows has  *)
(* opened exactly R files, pairwise distinct, the i-th named prefix +      *)
(* toString(i) + suffix, and file i holds exactly one line, the text of    *)
(* row i, which reads back as row i; what was in the file before is gone.  *)
(***************************************************************************)
C4_OneFilePerRow ==
    (shallCreateFileForEachRow /\ pc = "done") =>
        /\ Len(openLog) = Len(matrix)
        /\ \A i, j \in 1..Len(openLog) : i # j => openLog[i] # openLog[j]
        /\ \A i \in 1..Len(matrix) :
              /\ openLog[i] = firstPart \o ToString(i) \o lastPart
              /\ openLog[i] \in DOMAIN disk
              /\ disk[openLog[i]] = RowText(matrix[i])
              /\ Len(ExtractByLine(disk[openLog[i]])) = 1
              /\ ParseLine(ExtractByLine(disk[openLog[i]])[1]) =
                     [row |-> matrix[i], failed |-> FALSE]

C4_Witness_ThreeRowFilesOverOldFile ==
    /\ shallCreateFileForEachRow
    /\ shallTranspose
    /\ pc = "done"
    /\ Len(matrix) = 3
    /\ Len(matrix[1]) = 2
    /\ openLog = << <<"o", "1">>, <<"o", "2">>, <<"o", "3">> >>

\* The state of the files and of the message during and after writing
WriteFailed == pc = "failed" /\ stages # <<>> /\ Last(stages) = "Writing"

RowsBefore(k) == Concat([i \in 1..(k - 1) |-> RowText(matrix[i])])

C8_StateInv ==
    /\ WriteFailed =>
          /\ result.kind = "IoError"
          /\ result.line = nLine
          /\ result.cites = {"line", "file"}
          /\ nLine \in 1..Len(matrix)
          /\ IF shallCreateFileForEachRow
             THEN /\ result.file = RowFile(nLine)
                  /\ Len(openLog) \in {nLine - 1, nLine}
                  /\ \A i \in 1..(nLine - 1) :
                        /\ openLog[i] = RowFile(i)
                        /\ disk[RowFile(i)] = RowText(matrix[i])
                  /\ \A i \in (nLine + 1)..Len(matrix) :
                        /\ \A j \in 1..Len(openLog) : openLog[j] # RowFile(i)
                        /\ RowFile(i) \in DOMAIN disk =>
                              disk[RowFile(i)] = ExistingFiles(outputFileNames)[RowFile(i)]
                  /\ Len(openLog) = nLine =>
                        /\ IsPrefix(disk[RowFile(nLine)], RowText(matrix[nLine]))
                        /\ disk[RowFile(nLine)] # RowText(matrix[nLine])
                  /\ Len(openLog) = nLine - 1 /\ RowFile(nLine) \in DOMAIN disk =>
                        disk[RowFile(nLine)] = ExistingFiles(outputFileNames)[RowFile(nLine)]
             ELSE /\ result.file = outputFileNames
                  /\ IF outGood
                     THEN /\ openLog = <<outputFileNames>>
                          /\ IsPrefix(RowsBefore(nLine), disk[outputFileNames])
                          /\ IsPrefix(disk[outputFileNames], RowsBefore(nLine + 1))
                          /\ disk[outputFileNames] # RowsBefore(nLine + 1)
                     ELSE /\ nLine = 1
                          /\ openLog = <<>>
                          /\ disk = ExistingFiles(outputFileNames)
    /\ pc \in {"writeSplit", "writeSingle", "done"} =>
          IF shallCreateFileForEachRow
          THEN \A i \in 1..nLine : disk[RowFile(i)] = RowText(matrix[i])
          ELSE nLine >= 1 =>
                  outGood /\ disk[outputFileNames] = RowsBefore(nLine + 1)

(***************************************************************************)
(* C8: a run that fails while writing row k fails with IoError naming      *)
(* row k and the file row k goes to; nothing was opened or written for     *)
(* the rows after k; the rows before k are on disk in full; a row whose    *)
(* write was not whole never goes unreported; and no step follows the      *)
(* failure, so success is not reported and the files stay as they are.     *)
(***************************************************************************)
C8_WriteFailureEndsRun == [](C8_StateInv) /\ [][~WriteFailed]_vars

C8_Witness_SecondRowFileFailsFirstStays ==
    /\ WriteFailed
    /\ shallCreateFileForEachRow
    /\ nLine = 2
    /\ Len(matrix) = 3
    /\ Len(openLog) = 2
    /\ disk[RowFile(1)] = RowText(matrix[1])
    /\ disk[RowFile(2)] # <<>>

\* Tokens of a line and the lines that hold one that is not a number
ValidNumber(t) ==
    LET d == IF t[1] \in {"-", "+"} THEN Tail(t) ELSE t
    IN  d # <<>> /\ \A k \in 1..Len(d) : IsDigit(d[k])

IsToken(line, i, j) ==
    /\ \A k \in i..j : line[k] # " "
    /\ i = 1 \/ line[i - 1] = " "
    /\ j = Len(line) \/ line[j + 1] = " "

HasBadToken(line) ==
    \E i \in 1..Len(line) : \E j \in i..Len(line) :
        IsToken(line, i, j) /\ ~ValidNumber(SubSeq(line, i, j))

NoToken(line) == \A k \in 1..Len(line) : line[k] = " "

BadLines == {n \in 1..Len(lines) : HasBadToken(lines[n])}

FirstBadLine == CHOOSE n \in BadLines : \A m \in BadLines : n <= m

(***************************************************************************)
(* C6: if a line holds a token (a maximal run of characters that are not   *)
(* white space) that is not a number, the run fails with ParseError        *)
(* citing the number of the first such line, counted over all lines; a     *)
(* line without tokens is no error and gives an empty row.                 *)
(***************************************************************************)
C6_BadTokenFailsAtItsLine ==
    /\ BadLines # {} =>
          \/ pc = "parse" /\ nLine < FirstBadLine
          \/ /\ pc = "failed"
             /\ result = Message("ParseError", FirstBadLine, InputFileName)
    /\ result.kind = "ParseError" => BadLines # {} /\ result.line = FirstBadLine
    /\ pc = "parse" =>
          \A n \in 1..nLine : NoToken(lines[n]) => matrix[n] = <<>>

\* The rows validation has to keep, and the first of them that differs
\* in length from the first
RECURSIVE NonEmptyRowsFrom(_)
NonEmptyRowsFrom(n) ==
    IF n > Len(lines) THEN <<>>
    ELSE LET row == ParseLine(lines[n]).row
         IN  (IF Len(row) = 0 THEN <<>> ELSE <<row>>) \o NonEmptyRowsFrom(n + 1)

Mismatching(rows) == {n \in 1..Len(rows) : Len(rows[n]) # Len(rows[1])}

FirstMismatch(rows) ==
    IF Mismatching(rows) = {} THEN 0
    ELSE CHOOSE n \in Mismatching(rows) : \A m \in Mismatching(rows) : n <= m

RaggedAtFirstMismatch ==
    LET rows == NonEmptyRowsFrom(1)
        f == FirstMismatch(rows)
    IN  /\ pc = "checkRows" => matrix = rows
        /\ validated # <<>> => validated = rows /\ f = 0
        /\ f # 0 =>
              \/ pc = "checkRows" /\ nLine < f
              \/ pc = "failed" /\ result.kind = "RaggedMatrixError"
        /\ result.kind = "RaggedMatrixError" => f # 0 /\ result.line = f

AllLinesBlank == \A n \in 1..Len(lines) : NoToken(lines[n])

(***************************************************************************)
(* C9: an input that was read and has no lines, or only lines of white     *)
(* space, gives only empty rows and fails with EmptyMatrixError: no rows   *)
(* remain, and the run neither transposes nor plans nor opens or changes   *)
(* an output file.                                                         *)
(***************************************************************************)
C9_BlankInputIsEmptyMatrixError ==
    (AllLinesBlank /\ Entered("Parsing") /\ result.kind # "IoError") =>
        /\ \A n \in 1..Len(matrix) : matrix[n] = <<>>
        /\ pc \in {"parse", "failed"}
        /\ pc = "failed" =>
              /\ result = Message("EmptyMatrixError", 0, InputFileName)
              /\ matrix = <<>>
              /\ validated = <<>>
              /\ stages = <<"Parsing", "Validating">>
              /\ openLog = <<>>
              /\ disk = ExistingFiles(outputFileNames)

C9_Witness_WhiteSpaceLinesOnly ==
    /\ result.kind = "EmptyMatrixError"
    /\ Len(lines) = 3
    /\ lines[2] = <<" ", " ">>
    /\ AllLinesBlank

====
